---- MODULE Spec2Model ----
(***************************************************************************)
(* FieldMetaInformation of openPMD-viewer                                  *)
(* (src/openpmd_viewer/openpmd_timeseries/field_metainfo.py).              *)
(*                                                                         *)
(* The object stores its axis data in attributes whose names are built     *)
(* from the axis label: <label>, d<label>, <label>min, <label>max.  The    *)
(* model keeps one function per attribute family, from label to value; a   *)
(* label outside the domain is an attribute that does not exist.           *)
(*                                                                         *)
(* Lengths are fixed-point numbers with Scale units per unit of length, so *)
(* that half a cell (0.5 * step) and a half-cell position are exact.       *)
(* An optional value (an attribute that may not exist, an argument that    *)
(* may be None) is a set with at most one element.                         *)
(*                                                                         *)
(* self.t, self.iterations, self.tmin and self.tmax are read by            *)
(* _find_output and never assigned in this file: they are supplied from    *)
(* outside and are part of the initial state.  Lines 115-116 register two  *)
(* attributes under names given by the values of the arguments t and       *)
(* iteration; the model records them in `registered` and does not model    *)
(* the interpreter's restriction of attribute names to strings.            *)
(***************************************************************************)
EXTENDS Integers, Naturals, Sequences, FiniteSets, TLC

\* ------------------------------------------------------------------ bounds
MaxPoints == 2
MaxSnapshots == 2

\* fixed-point denominator: 0.5 * Scale is one unit
Scale == 2

\* ------------------------------------------------------- input value sets
\* labels the reader may pass at construction, and all labels that can exist
AxisLabels == {"r", "x", "z"}
Labels == {"r", "x", "y", "z"}
\* number of axes of a constructed object
Dims == {1, 2, 3}
\* raw grid_spacing, global_offset and grid_unitSI values
Spacings == {1, 2}
Offsets == {0, 1}
Units == {1}
\* position inside the cell, as a multiple of 1/Scale (0 and one half)
Positions == {0, 1}
\* the snapshots of the series: a simulation time paired with an iteration
Snapshots == {[time |-> 0, iteration |-> 0], [time |-> 2, iteration |-> 1]}
\* an optional value: None or Some(v)
None == {}
Some(v) == {v}
Val(o) == CHOOSE v \in o : TRUE

\* --------------------------------------------------------------- helpers
Abs(v) == IF v < 0 THEN -v ELSE v
SetMin(S) == CHOOSE m \in S : \A v \in S : m <= v
SetMax(S) == CHOOSE m \in S : \A v \in S : v <= m
Range(f) == {f[k] : k \in DOMAIN f}
\* f without the key k (delattr / del)
Del(f, k) == [j \in (DOMAIN f) \ {k} |-> f[j]]
\* f with f[k] = v (setattr)
Put(f, k, v) == [j \in (DOMAIN f) \cup {k} |-> IF j = k THEN v ELSE f[j]]
\* python index (0-based) into a TLA+ sequence
At(s, i) == s[i + 1]
\* the last index (0-based) of the smallest entry
ArgMinLast(s) ==
    CHOOSE i \in 0 .. Len(s) - 1 :
        \A j \in 0 .. Len(s) - 1 :
            /\ At(s, i) <= At(s, j)
            /\ (At(s, j) = At(s, i) => j <= i)
\* numpy argmin: the first index (0-based) of the smallest entry
ArgMin(s) ==
    CHOOSE i \in 0 .. Len(s) - 1 :
        \A j \in 0 .. Len(s) - 1 :
            /\ At(s, i) <= At(s, j)
            /\ (At(s, j) = At(s, i) => i <= j)
\* np.linspace(start, end, n, endpoint=False)
LinspaceOpen(start, end, n) ==
    [k \in 1 .. n |-> start + ((k - 1) * (end - start)) \div n]
\* np.linspace(start, end, n, endpoint=True)
Linspace(start, end, n) ==
    [k \in 1 .. n |->
        IF n = 1 THEN start ELSE start + ((k - 1) * (end - start)) \div (n - 1)]
\* the negated array in its own order, -a
Negated(a) == [k \in 1 .. Len(a) |-> -a[k]]
\* -a[::-1]
NegReversed(a) == [k \in 1 .. Len(a) |-> -a[Len(a) + 1 - k]]

VARIABLES
    phase,              \* "new" before __init__, "ready" after it returned, "failed" after it raised
    axes,               \* self.axes: dict index -> label
    coord,              \* self.<label>: coordinate array
    dcoord,             \* self.d<label>: step
    coordmin,           \* self.<label>min
    coordmax,           \* self.<label>max
    imshow_extent,      \* optional self.imshow_extent
    t,                  \* self.t: all times of the series
    iterations,         \* self.iterations: all iterations of the series
    current_i,          \* optional self._current_i
    current_t,          \* optional self.current_t
    current_iteration,  \* optional self.current_iteration
    registered,         \* attributes set by lines 115-116: name -> value
    call,               \* the last call: operation and arguments (shape and thetaMode: of __init__)
    raised              \* the exception the last call raised, or "none"

vars == <<phase, axes, coord, dcoord, coordmin, coordmax, imshow_extent, t,
          iterations, current_i, current_t, current_iteration, registered,
          call, raised>>

\* self.tmin / self.tmax: smallest and largest time of the series
tmin == SetMin(Range(t))
tmax == SetMax(Range(t))

\* the axis part of the object, as a record the methods transform
Self == [axes |-> axes, coord |-> coord, dcoord |-> dcoord,
         coordmin |-> coordmin, coordmax |-> coordmax,
         imshow_extent |-> imshow_extent, exc |-> "none"]

\* the time-index part of the object
Index == [current_i |-> current_i, current_t |-> current_t,
          current_iteration |-> current_iteration, exc |-> "none"]

\* ------------------------------------------------ _generate_imshow_extent
\* does the object have the three attributes the extent reads for `label`
HasBounds(o, label) ==
    /\ label \in DOMAIN o.coordmin
    /\ label \in DOMAIN o.coordmax
    /\ label \in DOMAIN o.dcoord

\* [coord_min - 0.5*coord_step, coord_max + 0.5*coord_step]
ExtentOf(o, label) ==
    << o.coordmin[label] - o.dcoord[label] \div Scale,
       o.coordmax[label] + o.dcoord[label] \div Scale >>

\* the extent in the order of the axes, not swapped
generate_imshow_extent_unswapped(o) ==
    IF Cardinality(DOMAIN o.axes) = 2 /\ {0, 1} \subseteq DOMAIN o.axes
       /\ HasBounds(o, o.axes[0]) /\ HasBounds(o, o.axes[1])
    THEN [o EXCEPT !.imshow_extent =
             Some(ExtentOf(o, o.axes[0]) \o ExtentOf(o, o.axes[1]))]
    ELSE [o EXCEPT !.imshow_extent = None]

generate_imshow_extent(o) ==
    IF Cardinality(DOMAIN o.axes) = 2
    THEN IF ~({0, 1} \subseteq DOMAIN o.axes)
         THEN [o EXCEPT !.imshow_extent = Some(<< >>), !.exc = "KeyError"]
         ELSE IF ~HasBounds(o, o.axes[1])
         THEN [o EXCEPT !.imshow_extent = Some(<< >>), !.exc = "AttributeError"]
         ELSE IF ~HasBounds(o, o.axes[0])
         THEN [o EXCEPT !.imshow_extent = Some(ExtentOf(o, o.axes[1])),
                        !.exc = "AttributeError"]
         ELSE [o EXCEPT !.imshow_extent =
                   Some(ExtentOf(o, o.axes[1]) \o ExtentOf(o, o.axes[0]))]
    ELSE [o EXCEPT !.imshow_extent = None]

\* ----------------------------------------------------------- _remove_axis
\* the remaining labels, last first
RECURSIVE KeptLabelsReversed(_, _, _, _)
KeptLabelsReversed(ax, i, ndim, obsolete_axis) ==
    IF i >= ndim THEN << >>
    ELSE KeptLabelsReversed(ax, i + 1, ndim, obsolete_axis)
         \o (IF ax[i] # obsolete_axis THEN << ax[i] >> ELSE << >>)

\* [self.axes[i] for i in range(ndim) if self.axes[i] != obsolete_axis]
RECURSIVE KeptLabels(_, _, _, _)
KeptLabels(ax, i, ndim, obsolete_axis) ==
    IF i >= ndim THEN << >>
    ELSE (IF ax[i] # obsolete_axis THEN << ax[i] >> ELSE << >>)
         \o KeptLabels(ax, i + 1, ndim, obsolete_axis)

\* dict(enumerate(list, 1))
EnumerateFromOne(list) == [i \in 1 .. Len(list) |-> list[i]]

\* dict(enumerate(list))
Enumerate(list) == [i \in 0 .. Len(list) - 1 |-> list[i + 1]]

remove_axis(o, obsolete_axis) ==
    IF obsolete_axis \notin DOMAIN o.coord
    THEN [o EXCEPT !.exc = "AttributeError"]
    ELSE LET o1 == [o EXCEPT !.coord = Del(o.coord, obsolete_axis)] IN
    IF obsolete_axis \notin DOMAIN o1.coordmin
    THEN [o1 EXCEPT !.exc = "AttributeError"]
    ELSE LET o2 == [o1 EXCEPT !.coordmin = Del(o1.coordmin, obsolete_axis)] IN
    IF obsolete_axis \notin DOMAIN o2.coordmax
    THEN [o2 EXCEPT !.exc = "AttributeError"]
    ELSE LET o3 == [o2 EXCEPT !.coordmax = Del(o2.coordmax, obsolete_axis)]
             ndim == Cardinality(DOMAIN o3.axes) IN
    IF ~(0 .. ndim - 1 \subseteq DOMAIN o3.axes)
    THEN [o3 EXCEPT !.exc = "KeyError"]
    ELSE generate_imshow_extent(
             [o3 EXCEPT !.axes =
                 Enumerate(KeptLabels(o3.axes, 0, ndim, obsolete_axis))])

\* ----------------------------------------------------- restrict_to_1Daxis
\* list(self.axes.values()), in the order of the keys
RECURSIVE ValuesList(_, _)
ValuesList(ax, keys) ==
    IF keys = {} THEN << >>
    ELSE LET k == SetMin(keys) IN << ax[k] >> \o ValuesList(ax, keys \ {k})

\* the loop leaving after its first removal
RestrictLoopOnce(o, todo, axis) ==
    LET others == SelectSeq(todo, LAMBDA l : l # axis) IN
    IF others = << >> THEN o ELSE remove_axis(o, Head(others))

\* the loop over the labels that were active when the call started
RECURSIVE RestrictLoop(_, _, _)
RestrictLoop(o, todo, axis) ==
    IF todo = << >> \/ o.exc # "none" THEN o
    ELSE IF Head(todo) # axis
         THEN RestrictLoop(remove_axis(o, Head(todo)), Tail(todo), axis)
         ELSE RestrictLoop(o, Tail(todo), axis)

\* the loop run before the check of lines 131-134
restrict_to_1Daxis_late_check(o, axis) ==
    LET o1 == RestrictLoop(o, ValuesList(o.axes, DOMAIN o.axes), axis) IN
    IF axis \notin Range(o.axes)
    THEN [o1 EXCEPT !.exc = "ValueError"]
    ELSE o1

restrict_to_1Daxis(o, axis) ==
    IF axis \notin Range(o.axes)
    THEN [o EXCEPT !.exc = "ValueError"]
    ELSE RestrictLoop(o, ValuesList(o.axes, DOMAIN o.axes), axis)

\* ------------------------------------ _convert_cylindrical_to_3Dcartesian
\* the assertion of line 184; a missing key fails it as well
IsCylindrical(ax) ==
    /\ 0 \in DOMAIN ax
    /\ ax[0] \in {"r", "z"}
    /\ 1 \in DOMAIN ax
    /\ \/ ax[0] = "r" /\ ax[1] = "z"
       \/ ax[0] = "z" /\ ax[1] = "r"

\* the copies without the del
CopyRKeeping(f) == Put(Put(f, "x", f["r"]), "y", f["r"])

\* self.<a> = self.r ; self.<b> = self.r ; del self.r   on one attribute family
CopyR(f) == Del(Put(Put(f, "x", f["r"]), "y", f["r"]), "r")

convert_cylindrical_to_3Dcartesian(o) ==
    IF ~IsCylindrical(o.axes)
    THEN [o EXCEPT !.exc = "ValueError"]
    ELSE IF "r" \notin DOMAIN o.coord
    THEN [o EXCEPT !.exc = "AttributeError"]
    ELSE LET o1 == [o EXCEPT !.coord = CopyR(o.coord)] IN
    IF "r" \notin DOMAIN o1.dcoord
    THEN [o1 EXCEPT !.exc = "AttributeError"]
    ELSE LET o2 == [o1 EXCEPT !.dcoord = CopyR(o1.dcoord)] IN
    IF "r" \notin DOMAIN o2.coordmin
    THEN [o2 EXCEPT !.exc = "AttributeError"]
    ELSE LET o3 == [o2 EXCEPT !.coordmin = CopyR(o2.coordmin)] IN
    IF "r" \notin DOMAIN o3.coordmax
    THEN [o3 EXCEPT !.exc = "AttributeError"]
    ELSE [o3 EXCEPT !.coordmax = CopyR(o3.coordmax),
                    !.axes = (0 :> "x") @@ (1 :> "y") @@ (2 :> "z")]

\* ----------------------------------------------------------- _find_output
\* array - v, without abs
SignedDistances(array, v) == [k \in 1 .. Len(array) |-> array[k] - v]

\* abs(self.t - t), abs(iteration - self.iterations)
Distances(array, v) == [k \in 1 .. Len(array) |-> Abs(array[k] - v)]

\* lines 252-253: register the value in the object
RegisterCurrent(ix) ==
    IF ix.current_i = None
    THEN [ix EXCEPT !.exc = "AttributeError"]
    ELSE [ix EXCEPT !.current_t = Some(At(t, Val(ix.current_i))),
                    !.current_iteration = Some(At(iterations, Val(ix.current_i)))]

\* lines 229-237: a time is requested
FindTime(ix, req_t) ==
    IF req_t < tmin
    THEN [ix EXCEPT !.current_i = Some(0)]
    ELSE IF req_t > tmax
    THEN [ix EXCEPT !.current_i = Some(Len(t) - 1)]
    ELSE [ix EXCEPT !.current_i = Some(ArgMin(Distances(t, req_t)))]

\* the index goes back to the first output before the exception is raised
FindIterationResetting(ix, req_iteration) ==
    IF req_iteration \in Range(iterations)
    THEN [ix EXCEPT !.current_i = Some(ArgMin(Distances(iterations, req_iteration)))]
    ELSE [ix EXCEPT !.current_i = Some(0), !.exc = "OpenPMDException"]

\* lines 239-247: an iteration is requested
FindIteration(ix, req_iteration) ==
    IF req_iteration \in Range(iterations)
    THEN [ix EXCEPT !.current_i = Some(ArgMin(Distances(iterations, req_iteration)))]
    ELSE [ix EXCEPT !.exc = "OpenPMDException"]

\* the branch without the check of the arguments
find_output_unchecked(ix, req_t, req_iteration) ==
    IF req_t # None
    THEN RegisterCurrent(FindTime(ix, Val(req_t)))
    ELSE IF req_iteration # None
    THEN LET found == FindIteration(ix, Val(req_iteration))
         IN  IF found.exc # "none" THEN found ELSE RegisterCurrent(found)
    ELSE RegisterCurrent(ix)

\* with neither argument the index starts again from the first output
find_output_restarting(ix, req_t, req_iteration) ==
    IF req_t # None /\ req_iteration # None
    THEN [ix EXCEPT !.exc = "OpenPMDException"]
    ELSE IF req_t # None
    THEN RegisterCurrent(FindTime(ix, Val(req_t)))
    ELSE IF req_iteration # None
    THEN LET found == FindIteration(ix, Val(req_iteration))
         IN  IF found.exc # "none" THEN found ELSE RegisterCurrent(found)
    ELSE RegisterCurrent([ix EXCEPT !.current_i = Some(0)])

find_output(ix, req_t, req_iteration) ==
    IF req_t # None /\ req_iteration # None
    THEN [ix EXCEPT !.exc = "OpenPMDException"]
    ELSE IF req_t # None
    THEN RegisterCurrent(FindTime(ix, Val(req_t)))
    ELSE IF req_iteration # None
    THEN LET found == FindIteration(ix, Val(req_iteration))
         IN  IF found.exc # "none" THEN found ELSE RegisterCurrent(found)
    ELSE RegisterCurrent(ix)

\* --------------------------------------------------------------- __init__
\* lines 92-100: the coordinates along one axis
AxisStep(grid_spacing, grid_unitSI, axis) ==
    Scale * grid_spacing[axis] * grid_unitSI

AxisPoints(ax, shape, grid_spacing, global_offset, grid_unitSI, position, thetaMode, axis) ==
    LET step == AxisStep(grid_spacing, grid_unitSI, axis)
        n_points == shape[axis]
        start == Scale * global_offset[axis] * grid_unitSI
                 + (position[axis] * step) \div Scale
        end == start + (n_points - 1) * step
        axis_points == Linspace(start, end, n_points)
    IN  IF ax[axis] = "r" /\ thetaMode
        THEN NegReversed(axis_points) \o axis_points
        ELSE axis_points

\* lines 90-106: the loop over sorted(axes.keys()), from key `axis` on
RECURSIVE CreateElements(_, _, _, _, _, _, _, _, _)
CreateElements(o, ax, shape, grid_spacing, global_offset, grid_unitSI, position, thetaMode, axis) ==
    IF axis \notin DOMAIN ax THEN o
    ELSE LET axis_points == AxisPoints(ax, shape, grid_spacing, global_offset,
                                       grid_unitSI, position, thetaMode, axis)
             axis_name == ax[axis]
         IN  CreateElements(
                 [o EXCEPT
                     !.coord = Put(o.coord, axis_name, axis_points),
                     !.dcoord = Put(o.dcoord, axis_name,
                                    AxisStep(grid_spacing, grid_unitSI, axis)),
                     !.coordmin = Put(o.coordmin, axis_name, axis_points[1]),
                     !.coordmax = Put(o.coordmax, axis_name,
                                      axis_points[Len(axis_points)])],
                 ax, shape, grid_spacing, global_offset, grid_unitSI,
                 position, thetaMode, axis + 1)

\* lines 115-116: setattr(self, t, time); setattr(self, iteration, iter)
Registered(req_t, req_iteration, time, iter) ==
    [name \in {req_t, req_iteration} |->
        IF name = req_iteration THEN iter ELSE time]

\* ------------------------------------------------------------ input sets
\* the AxisOrdering passed to the constructor: keys 0..n-1, distinct labels
AxesInputs(dims) ==
    UNION {{ax \in [0 .. n - 1 -> AxisLabels] :
               \A i, j \in 0 .. n - 1 : ax[i] = ax[j] => i = j} : n \in dims}

\* an array with the same value on every axis
Uniform(ax, values) == {[axis \in DOMAIN ax |-> v] : v \in values}

\* grids of every shape and spacing, offset and position the same on all axes
Grids == [dims |-> Dims, points |-> 1 .. MaxPoints, spacings |-> Spacings,
          offsets |-> Offsets, positions |-> Positions]
\* two-dimensional one-point grids at the origin
PlainGrids == [dims |-> {2}, points |-> {1}, spacings |-> {1},
               offsets |-> {0}, positions |-> {0}]

\* the series of two snapshots, and all series of up to MaxSnapshots snapshots
TwoSnapshots == {<< [time |-> 0, iteration |-> 0], [time |-> 2, iteration |-> 1] >>}
AllSeries == UNION {[1 .. n -> Snapshots] : n \in 1 .. MaxSnapshots}

\* requested time / iteration: None or a value
TimeArgs == {None} \cup {Some(v) : v \in -1 .. 3}
IterationArgs == {None} \cup {Some(v) : v \in 0 .. 2}
FewTimeArgs == {None, Some(0)}
FewIterationArgs == {None, Some(2)}

NoCall == [op |-> "none", label |-> "", t |-> None, iteration |-> None,
           shape |-> << >>, thetaMode |-> FALSE]

\* the object before __init__ runs, in a series out of `series`
InitIn(series) ==
    /\ phase = "new"
    /\ axes = << >>
    /\ coord = << >>
    /\ dcoord = << >>
    /\ coordmin = << >>
    /\ coordmax = << >>
    /\ imshow_extent = None
    /\ \E s \in series :
           /\ t = [k \in 1 .. Len(s) |-> s[k].time]
           /\ iterations = [k \in 1 .. Len(s) |-> s[k].iteration]
    /\ current_i = None
    /\ current_t = None
    /\ current_iteration = None
    /\ registered = << >>
    /\ call = NoCall
    /\ raised = "none"

\* the axis part of the object after a method returned or raised
SetSelf(o) ==
    /\ axes' = o.axes
    /\ coord' = o.coord
    /\ dcoord' = o.dcoord
    /\ coordmin' = o.coordmin
    /\ coordmax' = o.coordmax
    /\ imshow_extent' = o.imshow_extent

\* the time-index part of the object after _find_output returned or raised
SetIndex(ix) ==
    /\ current_i' = ix.current_i
    /\ current_t' = ix.current_t
    /\ current_iteration' = ix.current_iteration

\* FieldMetaInformation(axes, shape, grid_spacing, global_offset, grid_unitSI,
\*                      position, t, iteration, thetaMode)
\* with the grid drawn from `grids` and the request from timeArgs x iterationArgs
ConstructIn(grids, timeArgs, iterationArgs) ==
    /\ phase = "new"
    /\ \E ax \in AxesInputs(grids.dims), grid_unitSI \in Units, thetaMode \in BOOLEAN,
          req_t \in timeArgs, req_iteration \in iterationArgs :
       \E shape \in [DOMAIN ax -> grids.points],
          grid_spacing \in [DOMAIN ax -> grids.spacings],
          global_offset \in Uniform(ax, grids.offsets),
          position \in Uniform(ax, grids.positions) :
       \E o \in {CreateElements([Self EXCEPT !.axes = ax], ax, shape,
                                grid_spacing, global_offset, grid_unitSI,
                                position, thetaMode, 0)},
          ix \in {find_output(Index, req_t, req_iteration)} :
       \E done \in {IF ix.exc = "none" THEN generate_imshow_extent(o) ELSE o} :
             /\ SetSelf(done)
             /\ SetIndex(ix)
             /\ registered' =
                    IF ix.exc = "none"
                    THEN Registered(req_t, req_iteration,
                                    At(t, Val(ix.current_i)),
                                    At(iterations, Val(ix.current_i)))
                    ELSE registered
             /\ raised' = IF ix.exc # "none" THEN ix.exc ELSE done.exc
             /\ phase' = IF raised' = "none" THEN "ready" ELSE "failed"
             /\ call' = [op |-> "Construct", label |-> "", t |-> req_t,
                         iteration |-> req_iteration,
                         shape |-> shape, thetaMode |-> thetaMode]
             /\ UNCHANGED <<t, iterations>>

\* ------------------------------------------------------------- operations
RemoveAxis ==
    /\ phase = "ready"
    /\ \E obsolete_axis \in Labels :
       \E o \in {remove_axis(Self, obsolete_axis)} :
        /\ SetSelf(o)
        /\ raised' = o.exc
        /\ call' = [op |-> "RemoveAxis", label |-> obsolete_axis,
                    t |-> None, iteration |-> None,
                    shape |-> << >>, thetaMode |-> FALSE]
    /\ UNCHANGED <<phase, t, iterations, current_i, current_t,
                   current_iteration, registered>>

RestrictToAxis ==
    /\ phase = "ready"
    /\ \E axis \in Labels :
       \E o \in {restrict_to_1Daxis(Self, axis)} :
        /\ SetSelf(o)
        /\ raised' = o.exc
        /\ call' = [op |-> "RestrictToAxis", label |-> axis,
                    t |-> None, iteration |-> None,
                    shape |-> << >>, thetaMode |-> FALSE]
    /\ UNCHANGED <<phase, t, iterations, current_i, current_t,
                   current_iteration, registered>>

ConvertCylindricalToCartesian ==
    /\ phase = "ready"
    /\ \E o \in {convert_cylindrical_to_3Dcartesian(Self)} :
        /\ SetSelf(o)
        /\ raised' = o.exc
    /\ call' = [op |-> "ConvertCylindricalToCartesian", label |-> "",
                t |-> None, iteration |-> None,
                shape |-> << >>, thetaMode |-> FALSE]
    /\ UNCHANGED <<phase, t, iterations, current_i, current_t,
                   current_iteration, registered>>

\* _find_output(t, iteration) dropping the plotting extent of the object
ResolveIndexClearingExtent(timeArgs, iterationArgs) ==
    /\ phase = "ready"
    /\ \E req_t \in timeArgs, req_iteration \in iterationArgs :
       \E ix \in {find_output(Index, req_t, req_iteration)} :
        /\ SetIndex(ix)
        /\ raised' = ix.exc
        /\ call' = [op |-> "ResolveIndex", label |-> "", t |-> req_t,
                    iteration |-> req_iteration,
                    shape |-> << >>, thetaMode |-> FALSE]
    /\ imshow_extent' = None
    /\ UNCHANGED <<phase, axes, coord, dcoord, coordmin, coordmax,
                   t, iterations, registered>>

\* _find_output(t, iteration) on the constructed object
ResolveIndexIn(timeArgs, iterationArgs) ==
    /\ phase = "ready"
    /\ \E req_t \in timeArgs, req_iteration \in iterationArgs :
       \E ix \in {find_output(Index, req_t, req_iteration)} :
        /\ SetIndex(ix)
        /\ raised' = ix.exc
        /\ call' = [op |-> "ResolveIndex", label |-> "", t |-> req_t,
                    iteration |-> req_iteration,
                    shape |-> << >>, thetaMode |-> FALSE]
    /\ UNCHANGED <<phase, axes, coord, dcoord, coordmin, coordmax,
                   imshow_extent, t, iterations, registered>>

\* ---------------------------------------------------------- specifications
\* Spec: every grid, one series of two snapshots, a few requests
Init == InitIn(TwoSnapshots)
Construct == ConstructIn(Grids, FewTimeArgs, FewIterationArgs)
ResolveIndex == ResolveIndexIn(FewTimeArgs, FewIterationArgs)

Next ==
    \/ Construct
    \/ RemoveAxis
    \/ RestrictToAxis
    \/ ConvertCylindricalToCartesian
    \/ ResolveIndex

Spec == Init /\ [][Next]_vars

\* SpecIndex: one-point grids, every series, every request
InitIndex == InitIn(AllSeries)
ConstructIndex == ConstructIn(PlainGrids, TimeArgs, IterationArgs)
ResolveIndexAny == ResolveIndexIn(TimeArgs, IterationArgs)

NextIndex ==
    \/ ConstructIndex
    \/ RemoveAxis
    \/ RestrictToAxis
    \/ ConvertCylindricalToCartesian
    \/ ResolveIndexAny

SpecIndex == InitIndex /\ [][NextIndex]_vars

\* SpecRemove: Construct followed by RemoveAxis calls only
NextRemove ==
    \/ Construct
    \/ RemoveAxis

SpecRemove == Init /\ [][NextRemove]_vars

\* ------------------------------------------------------------------ claims
NumAxes == Cardinality(DOMAIN axes)
ActiveLabels == Range(axes)

\* C1 (as claimed): in every state of a constructed object the plotting
\* extent is present if and only if exactly two axes are active.  The code
\* does not rebuild the extent in _convert_cylindrical_to_3Dcartesian.
C1_ExtentIffTwoAxes ==
    phase = "ready" => (imshow_extent # None <=> NumAxes = 2)

\* 0.5 * spacing of the axis `label`
HalfCell(label) == dcoord[label] \div Scale

\* C2: after Construct and any sequence of RemoveAxis calls the extent
\* exists iff exactly two axes remain, and then it is
\* [min(axes[1]) - half cell, max(axes[1]) + half cell,
\*  min(axes[0]) - half cell, max(axes[0]) + half cell].
C2_ExtentAfterRemovals ==
    phase = "ready" =>
        /\ imshow_extent # None <=> NumAxes = 2
        /\ imshow_extent # None =>
               Val(imshow_extent) =
                   << coordmin[axes[1]] - HalfCell(axes[1]),
                      coordmax[axes[1]] + HalfCell(axes[1]),
                      coordmin[axes[0]] - HalfCell(axes[0]),
                      coordmax[axes[0]] + HalfCell(axes[0]) >>

\* a removal left two axes whose bounds differ, and the extent was rebuilt
C2_Witness ==
    /\ call.op = "RemoveAxis"
    /\ raised = "none"
    /\ NumAxes = 2
    /\ imshow_extent # None
    /\ coordmax[axes[0]] # coordmax[axes[1]]
    /\ dcoord[axes[0]] # dcoord[axes[1]]

\* C3: the keys of the AxisOrdering are exactly 0..len-1 in every state of a
\* constructed object.
C3_KeysContiguous ==
    phase = "ready" => DOMAIN axes = 0 .. NumAxes - 1

\* a removal of one of three axes left two
C3_Witness ==
    /\ call.op = "RemoveAxis"
    /\ raised = "none"
    /\ call.label = "r"
    /\ axes = (0 :> "x") @@ (1 :> "z")

\* the index of `label` in the AxisOrdering `ax`
KeyOf(ax, label) == CHOOSE k \in DOMAIN ax : ax[k] = label

\* C4: RemoveAxis(label) on an active label succeeds, leaves the coordinates,
\* spacing, min and max of every other active axis unchanged, and the new
\* AxisOrdering lists the remaining labels in their prior relative order
\* under the indices 0..len-2.
C4_RemoveAxisFrame ==
    [][ (call'.op = "RemoveAxis" /\ call'.label \in ActiveLabels) =>
           /\ raised' = "none"
           /\ \A other \in ActiveLabels \ {call'.label} :
                  /\ other \in DOMAIN coord' /\ coord'[other] = coord[other]
                  /\ other \in DOMAIN dcoord' /\ dcoord'[other] = dcoord[other]
                  /\ other \in DOMAIN coordmin' /\ coordmin'[other] = coordmin[other]
                  /\ other \in DOMAIN coordmax' /\ coordmax'[other] = coordmax[other]
           /\ DOMAIN axes' = 0 .. NumAxes - 2
           /\ Range(axes') = ActiveLabels \ {call'.label}
           /\ \A i, j \in DOMAIN axes' :
                  i < j => KeyOf(axes, axes'[i]) < KeyOf(axes, axes'[j])
      ]_vars

\* the middle one of the axes (r, x, z) was removed
C4_Witness ==
    /\ call.op = "RemoveAxis"
    /\ raised = "none"
    /\ call.label = "x"
    /\ axes = (0 :> "r") @@ (1 :> "z")
    /\ "x" \in DOMAIN dcoord

\* C5 (as claimed): the labels that have any stored descriptor field are the
\* labels of the AxisOrdering.  _remove_axis keeps d<label>.
C5_DescriptorsOfActiveAxesOnly ==
    phase = "ready" =>
        (DOMAIN coord \cup DOMAIN dcoord \cup DOMAIN coordmin \cup DOMAIN coordmax)
            = ActiveLabels

\* the last call was ResolveIndex with these kinds of arguments
Resolved(withTime, withIteration) ==
    /\ call.op = "ResolveIndex"
    /\ (call.t # None) = withTime
    /\ (call.iteration # None) = withIteration

\* i is the first index whose entry of `array` is closest to v
FirstClosest(array, i, v) ==
    /\ i \in 0 .. Len(array) - 1
    /\ \A j \in 0 .. Len(array) - 1 :
           /\ Abs(At(array, i) - v) <= Abs(At(array, j) - v)
           /\ (j < i => Abs(At(array, i) - v) < Abs(At(array, j) - v))

\* C6: ResolveIndex with only a time sets the index to 0 below the smallest
\* time, to the last index above the largest time, otherwise to the first
\* index of a time closest to the request; a requested time that occurs in
\* the array is the time at the chosen index.
C6_ResolveByTime ==
    Resolved(TRUE, FALSE) =>
        LET v == Val(call.t) IN
        /\ raised = "none"
        /\ current_i # None
        /\ (\A k \in 1 .. Len(t) : v < t[k]) => Val(current_i) = 0
        /\ (\A k \in 1 .. Len(t) : v > t[k]) => Val(current_i) = Len(t) - 1
        /\ (\E k, m \in 1 .. Len(t) : t[k] <= v /\ v <= t[m]) =>
               FirstClosest(t, Val(current_i), v)
        /\ v \in Range(t) => At(t, Val(current_i)) = v

\* the request 1 is as far from time 0 as from time 2: the first one wins
C6_Witness ==
    /\ Resolved(TRUE, FALSE)
    /\ call.t = Some(1)
    /\ t = << 0, 2 >>
    /\ current_i = Some(0)

\* C7: ResolveIndex with only an iteration X sets the index to the first
\* index that holds X when X occurs in the iterations array, and raises
\* OpenPMDException when it does not.
C7_ResolveByIteration ==
    Resolved(FALSE, TRUE) =>
        LET X == Val(call.iteration) IN
        IF X \in Range(iterations)
        THEN /\ raised = "none"
             /\ current_i # None
             /\ Val(current_i) \in 0 .. Len(iterations) - 1
             /\ At(iterations, Val(current_i)) = X
             /\ \A j \in 0 .. Val(current_i) - 1 : At(iterations, j) # X
        ELSE raised = "OpenPMDException"

\* iteration 1 was requested and found behind iteration 0
C7_Witness ==
    /\ Resolved(FALSE, TRUE)
    /\ call.iteration = Some(1)
    /\ iterations = << 0, 1 >>
    /\ current_i = Some(1)
    /\ raised = "none"

\* C8: ResolveIndex with both a time and an iteration raises
\* OpenPMDException, for every pair of values.
C8_BothArgumentsRejected ==
    Resolved(TRUE, TRUE) => raised = "OpenPMDException"

\* time 2 and iteration 1 designate the same snapshot, and the call raised
C8_Witness ==
    /\ Resolved(TRUE, TRUE)
    /\ call.t = Some(2)
    /\ call.iteration = Some(1)
    /\ t = << 0, 2 >>
    /\ iterations = << 0, 1 >>
    /\ raised = "OpenPMDException"

\* C9: ResolveIndex with neither argument, on an object that has an index,
\* keeps the index and stores current_t = t[index] and
\* current_iteration = iterations[index].
C9_ResolveWithNeitherKeepsIndex ==
    [][ (/\ call'.op = "ResolveIndex"
         /\ call'.t = None
         /\ call'.iteration = None
         /\ current_i # None) =>
           /\ raised' = "none"
           /\ current_i' = current_i
           /\ current_t' = Some(At(t, Val(current_i)))
           /\ current_iteration' = Some(At(iterations, Val(current_i)))
      ]_vars

\* the index 1 was kept after an axis had been removed
C9_Witness ==
    /\ Resolved(FALSE, FALSE)
    /\ raised = "none"
    /\ current_i = Some(1)
    /\ current_t = Some(At(t, 1))
    /\ NumAxes = 1

\* the object has an index in range, and the current time and iteration
\* are the ones at that index
IndexDefined ==
    /\ current_i # None
    /\ Val(current_i) \in 0 .. Len(t) - 1
    /\ current_t = Some(At(t, Val(current_i)))
    /\ current_iteration = Some(At(iterations, Val(current_i)))

\* C10 (as claimed): after Construct with a time, with an iteration of the
\* series or with neither, and after any later operations, the object has
\* an index in range with the matching current time and iteration.
\* Construct with neither argument raises: no index was ever resolved.
C10_IndexDefinedAfterConstruct ==
    (\/ phase = "ready"
     \/ phase = "failed" /\ call.t = None /\ call.iteration = None)
        => IndexDefined

\* the name of the conversion in `call`, and the orderings it is about
Conversion == "ConvertCylindricalToCartesian"
RZ == (0 :> "r") @@ (1 :> "z")
ZR == (0 :> "z") @@ (1 :> "r")
XYZ == (0 :> "x") @@ (1 :> "y") @@ (2 :> "z")

\* C11 (as claimed): ConvertCylindricalToCartesian raises a validation error
\* whenever the AxisOrdering is neither {0:'r',1:'z'} nor {0:'z',1:'r'}.
\* The assertion of line 184 reads the first two labels only: an ordering of
\* three axes that starts with r, z or z, r is converted.
C11_ConversionRejectsOtherOrderings ==
    [][ (call'.op = Conversion /\ axes # RZ /\ axes # ZR) => raised' # "none"
      ]_vars

\* the labels that have any stored descriptor field
StoredLabels ==
    DOMAIN coord \cup DOMAIN dcoord \cup DOMAIN coordmin \cup DOMAIN coordmax

\* C12: a ConvertCylindricalToCartesian that returns has created x and y with
\* the coordinates, spacing, min and max of r, removed every field of r,
\* left z unchanged and set the AxisOrdering to {0:'x',1:'y',2:'z'}.
C12_ConversionEffect ==
    [][ (call'.op = Conversion /\ raised' = "none") =>
           /\ \A new \in {"x", "y"} :
                  /\ coord'[new] = coord["r"]
                  /\ dcoord'[new] = dcoord["r"]
                  /\ coordmin'[new] = coordmin["r"]
                  /\ coordmax'[new] = coordmax["r"]
           /\ "r" \notin StoredLabels'
           /\ coord'["z"] = coord["z"]
           /\ dcoord'["z"] = dcoord["z"]
           /\ coordmin'["z"] = coordmin["z"]
           /\ coordmax'["z"] = coordmax["z"]
           /\ axes' = XYZ
      ]_vars

\* the conversion returned, and the extent left from before it shows that
\* the ordering was (z, r): it starts with the bounds of the radial axis
C12_Witness ==
    /\ call.op = Conversion
    /\ raised = "none"
    /\ axes = XYZ
    /\ Len(coord["x"]) = 2 * Len(coord["z"])
    /\ imshow_extent # None
    /\ Val(imshow_extent)[1] = coordmin["x"] - HalfCell("x")
    /\ Val(imshow_extent)[1] # coordmin["z"] - HalfCell("z")

\* C13: RestrictToAxis(label) with label among the active axis labels returns
\* with the AxisOrdering {0: label}, the coordinates, spacing, min and max of
\* label as they were, no plotting extent, and the coordinates, min and max
\* of every other axis removed.
C13_RestrictToActiveAxis ==
    [][ (call'.op = "RestrictToAxis" /\ call'.label \in ActiveLabels) =>
           /\ raised' = "none"
           /\ axes' = (0 :> call'.label)
           /\ coord'[call'.label] = coord[call'.label]
           /\ dcoord'[call'.label] = dcoord[call'.label]
           /\ coordmin'[call'.label] = coordmin[call'.label]
           /\ coordmax'[call'.label] = coordmax[call'.label]
           /\ imshow_extent' = None
           /\ DOMAIN coord' = {call'.label}
           /\ DOMAIN coordmin' = {call'.label}
           /\ DOMAIN coordmax' = {call'.label}
      ]_vars

\* three axes left by a conversion were restricted to y
C13_Witness ==
    /\ call.op = "RestrictToAxis"
    /\ call.label = "y"
    /\ raised = "none"
    /\ axes = (0 :> "y")
    /\ DOMAIN coord = {"y"}
    /\ imshow_extent = None

\* C14: a RestrictToAxis whose label is not active, and a
\* ConvertCylindricalToCartesian that fails its check of the ordering, leave
\* the AxisOrdering, every descriptor field, the plotting extent and the time
\* index as they were before the call.
C14_FailedAxisCallChangesNothing ==
    [][ (call'.op \in {"RestrictToAxis", Conversion} /\ raised' # "none") =>
           UNCHANGED <<axes, coord, dcoord, coordmin, coordmax, imshow_extent,
                       current_i, current_t, current_iteration>>
      ]_vars

\* a restriction to a label that is not active failed on an object of two
\* axes, which still has both of them and its extent
C14_Witness ==
    /\ call.op = "RestrictToAxis"
    /\ call.label \notin ActiveLabels
    /\ raised = "ValueError"
    /\ NumAxes = 2
    /\ DOMAIN coord = ActiveLabels
    /\ imshow_extent # None

\* C15 (as claimed): the four failure cases raise one and the same error kind,
\* the exception of the package (OpenPMDException): ResolveIndex with both t
\* and iteration, ResolveIndex with an absent iteration, RestrictToAxis with a
\* label that is not active, ConvertCylindricalToCartesian on another axis set.
\* Lines 132 and 186 raise the builtin ValueError instead.
C15_SingleErrorKind ==
    (/\ phase = "ready"
     /\ call.op \in {"ResolveIndex", "RestrictToAxis", Conversion}
     /\ raised # "none")
        => raised = "OpenPMDException"

\* the constructor returned
Constructed == call.op = "Construct" /\ phase = "ready"
\* the entries of a grow from one to the next
StrictlyIncreasing(a) == \A k \in 1 .. Len(a) - 1 : a[k] < a[k + 1]
\* the axis of this key has n points of spacing s from min to max
RegularAxis(axis) ==
    LET label == axes[axis]
        n == call.shape[axis]
        s == dcoord[label]
    IN  /\ coordmax[label] - coordmin[label] = (n - 1) * s
        /\ Len(coord[label]) = n
        /\ StrictlyIncreasing(coord[label])
\* the radial axis of a constructor call in thetaMode
Mirrored(axis) == axes[axis] = "r" /\ call.thetaMode

\* C16 (as claimed): after Construct, every axis built with n points and
\* spacing s has max - min = (n-1)*s and exactly n strictly monotonic
\* coordinates, an axis 'r' built with thetaMode true included.
C16_EveryAxisRegular ==
    Constructed => \A axis \in DOMAIN axes : RegularAxis(axis)

\* C16 (amended): after Construct, every axis other than an axis 'r' built
\* with thetaMode true has max - min = (n-1)*s and exactly n strictly
\* increasing coordinates.
C16_UnmirroredAxisRegular ==
    Constructed =>
        \A axis \in DOMAIN axes : ~Mirrored(axis) => RegularAxis(axis)

\* built in thetaMode: z with two points is regular next to the mirrored r
C16_Witness ==
    /\ Constructed
    /\ call.thetaMode
    /\ axes = ZR
    /\ call.shape[0] = 2
    /\ Len(coord["z"]) = 2
    /\ coordmax["z"] - coordmin["z"] = dcoord["z"]
    /\ Len(coord["r"]) = 2 * call.shape[1]

\* the coordinates of r and the number of points r was built from
RadialPoints == coord["r"]
RadialShape == call.shape[CHOOSE axis \in DOMAIN axes : axes[axis] = "r"]
\* 2n points, entry i the negation of entry 2n+1-i (counted from 1)
Antisymmetric2n(a, n) ==
    /\ Len(a) = 2 * n
    /\ \A i \in 1 .. 2 * n : a[i] = -a[2 * n + 1 - i]
\* the upper half holds the n points of the unmirrored axis
UpperHalfRegular(a, n, s) ==
    \A k \in 1 .. n : a[n + k] = a[n + 1] + (k - 1) * s

\* C17 (as claimed): an axis 'r' built with thetaMode true from n points has
\* 2n coordinates, is antisymmetric, and the last entry of the negated half
\* equals the first entry of the original half, for every start offset.
C17_MirrorDuplicatesBoundary ==
    (Constructed /\ call.thetaMode /\ "r" \in ActiveLabels) =>
        /\ Antisymmetric2n(RadialPoints, RadialShape)
        /\ RadialPoints[RadialShape] = RadialPoints[RadialShape + 1]

\* C17 (amended): an axis 'r' built with thetaMode true from n points has 2n
\* coordinates and is antisymmetric, its upper half being the n points of
\* spacing s; the two entries at the boundary are negations of each other,
\* and equal only when the smallest sampled radius is zero.
C17_MirrorAntisymmetric ==
    (Constructed /\ call.thetaMode /\ "r" \in ActiveLabels) =>
        /\ Antisymmetric2n(RadialPoints, RadialShape)
        /\ UpperHalfRegular(RadialPoints, RadialShape, dcoord["r"])
        /\ RadialPoints[RadialShape] = -RadialPoints[RadialShape + 1]
        /\ (RadialPoints[RadialShape] = RadialPoints[RadialShape + 1]
                <=> RadialPoints[RadialShape + 1] = 0)

\* r mirrored from two points that start away from the axis: four
\* coordinates, none of them twice
C17_Witness ==
    /\ Constructed
    /\ call.thetaMode
    /\ "r" \in ActiveLabels
    /\ RadialShape = 2
    /\ Len(RadialPoints) = 4
    /\ RadialPoints[3] > 0
    /\ RadialPoints[2] = -RadialPoints[3]
    /\ StrictlyIncreasing(RadialPoints)

\* C18: a ResolveIndex call that raises leaves current_index, current_time
\* and current_iteration as they were before the call, and a ResolveIndex
\* with neither argument that follows a failed one raises nothing and leaves
\* them as they are: it reports the snapshot resolved before the failure.
C18_FailedResolveKeepsIndex ==
    [][ /\ (call'.op = "ResolveIndex" /\ raised' # "none") =>
               UNCHANGED <<current_i, current_t, current_iteration>>
        /\ (/\ call.op = "ResolveIndex" /\ raised # "none"
            /\ call'.op = "ResolveIndex"
            /\ call'.t = None /\ call'.iteration = None) =>
               /\ raised' = "none"
               /\ UNCHANGED <<current_i, current_t, current_iteration>>
      ]_vars

\* an iteration that the series does not hold was requested while the
\* second snapshot was the resolved one, and it still is
C18_Witness ==
    /\ call.op = "ResolveIndex"
    /\ call.t = None
    /\ call.iteration # None
    /\ Val(call.iteration) \notin Range(iterations)
    /\ raised = "OpenPMDException"
    /\ current_i = Some(1)
    /\ current_t = Some(At(t, 1))
    /\ current_iteration = Some(At(iterations, 1))

\* C19: RemoveAxis, RestrictToAxis and ConvertCylindricalToCartesian never
\* change current_index, current_time or current_iteration, and ResolveIndex,
\* whether it returns or raises, never changes the AxisOrdering, a field of a
\* descriptor or the plotting extent.
C19_AxisAndIndexIndependent ==
    [][ /\ call'.op \in {"RemoveAxis", "RestrictToAxis", Conversion} =>
               UNCHANGED <<current_i, current_t, current_iteration>>
        /\ call'.op = "ResolveIndex" =>
               UNCHANGED <<axes, coord, dcoord, coordmin, coordmax,
                           imshow_extent>>
      ]_vars

\* the index was moved to the second snapshot after an axis was removed, and
\* the object still has its one axis and no extent
C19_Witness ==
    /\ call.op = "ResolveIndex"
    /\ raised = "none"
    /\ current_i = Some(1)
    /\ NumAxes = 1
    /\ DOMAIN coord = ActiveLabels
    /\ imshow_extent = None

====
